---------------------------- MODULE Spec2Model ----------------------------
(***************************************************************************)
(* A model of the Monkey interpreter front end: the Pratt parser and the   *)
(* AST printer (package parser / package ast) and the two REPL entry       *)
(* points (package repl).                                                  *)
(*                                                                         *)
(* Text is a sequence of one-character strings, so that the printer's      *)
(* output can be lexed again.  A token is [Type, Literal]; an AST node is  *)
(* a record whose field "node" names its Go type.  A parse function of     *)
(* the Go code, which mutates the parser and returns a node, is an         *)
(* operator from a parser record to [p |-> parser after, e |-> node].      *)
(***************************************************************************)
EXTENDS Integers, Sequences, FiniteSets, TLC

(***************************************************************************)
(* Token kinds (package token).                                            *)
(***************************************************************************)
ILLEGAL   == "ILLEGAL"
EOF       == "EOF"
IDENT     == "IDENT"
INT       == "INT"
T_STRING  == "STRING"
ASSIGN    == "="
PLUS      == "+"
MINUS     == "-"
BANG      == "!"
ASTERISK  == "*"
SLASH     == "/"
LT        == "<"
GT        == ">"
EQ        == "=="
NOT_EQ    == "!="
COMMA     == ","
SEMICOLON == ";"
COLON     == ":"
LPAREN    == "("
RPAREN    == ")"
LBRACE    == "{"
RBRACE    == "}"
LBRACKET  == "["
RBRACKET  == "]"
FUNCTION  == "FUNCTION"
T_LET     == "LET"
T_TRUE    == "TRUE"
T_FALSE   == "FALSE"
T_IF      == "IF"
T_ELSE    == "ELSE"
RETURN    == "RETURN"

TokenTypes ==
  { ILLEGAL, EOF, IDENT, INT, T_STRING, ASSIGN, PLUS, MINUS, BANG, ASTERISK,
    SLASH, LT, GT, EQ, NOT_EQ, COMMA, SEMICOLON, COLON, LPAREN, RPAREN,
    LBRACE, RBRACE, LBRACKET, RBRACKET, FUNCTION, T_LET, T_TRUE, T_FALSE,
    T_IF, T_ELSE, RETURN }

\* The text of a sequence of characters as one string.
RECURSIVE Str(_)
Str(cs) == IF cs = <<>> THEN "" ELSE Head(cs) \o Str(Tail(cs))

Tok(type, literal) == [Type |-> type, Literal |-> literal]

\* The zero value of token.Token.
ZeroToken == Tok("", <<>>)

EOFToken == Tok(EOF, <<>>)

(***************************************************************************)
(* Precedence levels and the precedence table.                             *)
(***************************************************************************)
LOWEST      == 1
EQUALS      == 2
LESSGREATER == 3
SUM         == 4
PRODUCT     == 5
PREFIX      == 6
CALL        == 7
INDEX       == 8

precedencesSwapped ==
  (EQ :> EQUALS) @@ (NOT_EQ :> EQUALS) @@ (LT :> LESSGREATER) @@
  (GT :> LESSGREATER) @@ (PLUS :> PRODUCT) @@ (MINUS :> PRODUCT) @@
  (SLASH :> SUM) @@ (ASTERISK :> SUM) @@ (LPAREN :> CALL) @@
  (LBRACKET :> INDEX)

precedences ==
  (EQ :> EQUALS) @@ (NOT_EQ :> EQUALS) @@ (LT :> LESSGREATER) @@
  (GT :> LESSGREATER) @@ (PLUS :> SUM) @@ (MINUS :> SUM) @@
  (SLASH :> PRODUCT) @@ (ASTERISK :> PRODUCT) @@ (LPAREN :> CALL) @@
  (LBRACKET :> INDEX)

(***************************************************************************)
(* The lexer as the parser sees it: NextToken hands out the tokens of the  *)
(* input in order and the end-of-file token ever after.  pos counts the    *)
(* calls made so far, plus one.                                            *)
(***************************************************************************)
NextToken(toks, pos) == IF pos <= Len(toks) THEN toks[pos] ELSE EOFToken

(***************************************************************************)
(* The parser.  p.spin is set when the parser has entered a loop it never  *)
(* leaves (the call does not return); from then on p is frozen.            *)
(***************************************************************************)
curTokenIs(p, t) == p.curToken.Type = t

peekTokenIs(p, t) == p.peekToken.Type = t

peekPrecedence(p) ==
  IF p.peekToken.Type \in DOMAIN precedences
  THEN precedences[p.peekToken.Type] ELSE LOWEST

curPrecedence(p) ==
  IF p.curToken.Type \in DOMAIN precedences
  THEN precedences[p.curToken.Type] ELSE LOWEST

nextToken(p) ==
  IF p.spin THEN p
  ELSE [p EXCEPT !.curToken = p.peekToken,
                 !.peekToken = NextToken(p.toks, p.pos),
                 !.pos = p.pos + 1]

New(toks) ==
  nextToken(nextToken([toks |-> toks, pos |-> 1, errors |-> <<>>,
                       curToken |-> ZeroToken, peekToken |-> ZeroToken,
                       spin |-> FALSE]))

Errors(p) == p.errors

\* The list overwritten instead of appended to.
appendErrorOverwrite(p, msg) ==
  IF p.spin THEN p ELSE [p EXCEPT !.errors = <<msg>>]

\* p.errors = append(p.errors, msg)
appendError(p, msg) ==
  IF p.spin THEN p ELSE [p EXCEPT !.errors = Append(p.errors, msg)]

ExpectedMsg(t, got) ==
  "expected next token to be " \o t \o ", got " \o got \o " instead"

NoPrefixMsg(t) == "no prefix parse function for " \o t \o " found"

\* fmt.Sprintf("could not parse %q as integer", literal)
CouldNotParseMsg(literal) ==
  "could not parse \"" \o Str(literal) \o "\" as integer"

peekError(p, t) == appendError(p, ExpectedMsg(t, p.peekToken.Type))

noPrefixParseFnError(p, t) == appendError(p, NoPrefixMsg(t))

\* [p, ok]: the parser after the call and the boolean returned.
expectPeek(p, t) ==
  IF peekTokenIs(p, t)
  THEN [p |-> nextToken(p), ok |-> TRUE]
  ELSE [p |-> peekError(p, t), ok |-> FALSE]

(***************************************************************************)
(* AST nodes.  Nil is the nil pointer (or nil interface).                  *)
(***************************************************************************)
Nil == [node |-> "nil"]

Ret(p, e) == [p |-> p, e |-> e]


(***************************************************************************)
(* strconv.ParseInt(literal, 0, 64) on a literal of decimal digits, the    *)
(* only literals an INT token carries: a leading "0" on a longer literal   *)
(* selects base 8, where the digits 8 and 9 are syntax errors; a value     *)
(* beyond 2^63 - 1 is a range error.                                       *)
(***************************************************************************)
Digits == <<"0", "1", "2", "3", "4", "5", "6", "7", "8", "9">>

IsDigit(c) == \E i \in 1..Len(Digits) : Digits[i] = c

DigitVal(c) == (CHOOSE i \in 1..Len(Digits) : Digits[i] = c) - 1

RECURSIVE BaseValue(_, _)
BaseValue(cs, base) ==
  IF cs = <<>> THEN 0
  ELSE BaseValue(SubSeq(cs, 1, Len(cs) - 1), base) * base + DigitVal(cs[Len(cs)])

RECURSIVE StripZeros(_)
StripZeros(cs) ==
  IF cs # <<>> /\ Head(cs) = "0" THEN StripZeros(Tail(cs)) ELSE cs

\* Lexicographic cs <= ds for digit sequences of the same length.
RECURSIVE DigitsLeq(_, _)
DigitsLeq(cs, ds) ==
  IF cs = <<>> THEN TRUE
  ELSE IF DigitVal(Head(cs)) # DigitVal(Head(ds))
       THEN DigitVal(Head(cs)) < DigitVal(Head(ds))
       ELSE DigitsLeq(Tail(cs), Tail(ds))

MaxInt64Digits ==
  <<"9", "2", "2", "3", "3", "7", "2", "0", "3", "6", "8", "5", "4", "7", "7",
    "5", "8", "0", "7">>

ParseInt(literal) ==
  IF literal = <<>> \/ \E i \in 1..Len(literal) : ~IsDigit(literal[i])
  THEN [ok |-> FALSE, value |-> 0]
  ELSE IF Len(literal) > 1 /\ literal[1] = "0"
  THEN \* base 8; 2^63 - 1 is twenty-one 7s
       IF \/ \E i \in 2..Len(literal) : DigitVal(literal[i]) > 7
          \/ Len(StripZeros(literal)) > 21
       THEN [ok |-> FALSE, value |-> 0]
       ELSE [ok |-> TRUE, value |-> BaseValue(Tail(literal), 8)]
  ELSE \* base 10
       IF \/ Len(literal) > Len(MaxInt64Digits)
          \/ /\ Len(literal) = Len(MaxInt64Digits)
             /\ ~DigitsLeq(literal, MaxInt64Digits)
       THEN [ok |-> FALSE, value |-> 0]
       ELSE [ok |-> TRUE, value |-> BaseValue(literal, 10)]

(***************************************************************************)
(* The prefix parse functions without sub-expressions.                     *)
(***************************************************************************)
parseIdentifier(p) ==
  Ret(p, [node |-> "Identifier", Token |-> p.curToken,
          Value |-> p.curToken.Literal])

parseIntegerLiteral(p) ==
  LET r == ParseInt(p.curToken.Literal) IN
  IF ~r.ok
  THEN Ret(appendError(p, CouldNotParseMsg(p.curToken.Literal)), Nil)
  ELSE Ret(p, [node |-> "IntegerLiteral", Token |-> p.curToken,
               Value |-> r.value])

parseBoolean(p) ==
  Ret(p, [node |-> "Boolean", Token |-> p.curToken,
          Value |-> curTokenIs(p, T_TRUE)])

parseStringLiteral(p) ==
  Ret(p, [node |-> "StringLiteral", Token |-> p.curToken,
          Value |-> p.curToken.Literal])

(***************************************************************************)
(* The Pratt parser proper.  A Go function that calls the parser several   *)
(* times in a row is a chain of operators, one per call, each taking the   *)
(* result of the call before it; a Go loop is a recursive operator over    *)
(* the loop's variables.                                                   *)
(***************************************************************************)
RECURSIVE parseExpression(_, _), parseStatement(_), parseBlockStatement(_)

\* return nil after a failed expectPeek, else return e
OrNil(ep, e) == IF ~ep.ok THEN Ret(ep.p, Nil) ELSE Ret(ep.p, e)

IdentifierNode(tok) ==
  [node |-> "Identifier", Token |-> tok, Value |-> tok.Literal]

prefixNode(tok, right) ==
  Ret(right.p, [node |-> "PrefixExpression", Token |-> tok,
                Operator |-> tok.Literal, Right |-> right.e])

parsePrefixExpression(p) ==
  prefixNode(p.curToken, parseExpression(nextToken(p), PREFIX))

infixNode(tok, left, right) ==
  Ret(right.p, [node |-> "InfixExpression", Token |-> tok, Left |-> left,
                Operator |-> tok.Literal, Right |-> right.e])

\* The right operand parsed one level lower: right-associative.
parseInfixExpressionRightAssoc(p, left) ==
  infixNode(p.curToken, left,
            parseExpression(nextToken(p), curPrecedence(p) - 1))

parseInfixExpression(p, left) ==
  infixNode(p.curToken, left,
            parseExpression(nextToken(p), curPrecedence(p)))

groupedClose(exp) == OrNil(expectPeek(exp.p, RPAREN), exp.e)

parseGroupedExpression(p) ==
  groupedClose(parseExpression(nextToken(p), LOWEST))

IfNode(tok, cond, csq, alt) ==
  [node |-> "IfExpression", Token |-> tok, Condition |-> cond,
   Consequence |-> csq, Alternative |-> alt]

ifAlternative(tok, cond, csq, alt) ==
  Ret(alt.p, IfNode(tok, cond, csq, alt.e))

ifElse(tok, cond, csq, lb) ==
  IF ~lb.ok THEN Ret(lb.p, Nil)
  ELSE ifAlternative(tok, cond, csq, parseBlockStatement(lb.p))

ifConsequence(tok, cond, csq) ==
  IF peekTokenIs(csq.p, T_ELSE)
  THEN ifElse(tok, cond, csq.e, expectPeek(nextToken(csq.p), LBRACE))
  ELSE Ret(csq.p, IfNode(tok, cond, csq.e, Nil))

ifLBrace(tok, cond, lb) ==
  IF ~lb.ok THEN Ret(lb.p, Nil)
  ELSE ifConsequence(tok, cond, parseBlockStatement(lb.p))

ifRParen(tok, cond, rp) ==
  IF ~rp.ok THEN Ret(rp.p, Nil)
  ELSE ifLBrace(tok, cond, expectPeek(rp.p, LBRACE))

ifCondition(tok, cnd) == ifRParen(tok, cnd.e, expectPeek(cnd.p, RPAREN))

ifLParen(tok, lp) ==
  IF ~lp.ok THEN Ret(lp.p, Nil)
  ELSE ifCondition(tok, parseExpression(nextToken(lp.p), LOWEST))

parseIfExpression(p) == ifLParen(p.curToken, expectPeek(p, LPAREN))

\* for p.peekTokenIs(token.COMMA) { ... } of parseFunctionParameters
RECURSIVE parametersLoop(_, _)
parametersNext(q, identifiers) ==
  parametersLoop(q, Append(identifiers, IdentifierNode(q.curToken)))

parametersLoop(p, identifiers) ==
  IF peekTokenIs(p, COMMA)
  THEN parametersNext(nextToken(nextToken(p)), identifiers)
  ELSE [p |-> p, identifiers |-> identifiers]

\* if !p.expectPeek(token.RPAREN) { return nil }; the nil slice is the
\* empty one.
parametersClose(loop, rp) ==
  [p |-> rp.p, identifiers |-> IF rp.ok THEN loop.identifiers ELSE <<>>]

parametersEnd(loop) == parametersClose(loop, expectPeek(loop.p, RPAREN))

parametersFirst(q) ==
  parametersEnd(parametersLoop(q, <<IdentifierNode(q.curToken)>>))

\* [p, identifiers]
parseFunctionParameters(p) ==
  IF peekTokenIs(p, RPAREN)
  THEN [p |-> nextToken(p), identifiers |-> <<>>]
  ELSE parametersFirst(nextToken(p))

functionBody(tok, parameters, body) ==
  Ret(body.p, [node |-> "FunctionLiteral", Token |-> tok,
               Parameters |-> parameters, Body |-> body.e])

functionLBrace(tok, parameters, lb) ==
  IF ~lb.ok THEN Ret(lb.p, Nil)
  ELSE functionBody(tok, parameters, parseBlockStatement(lb.p))

functionParameters(tok, prm) ==
  functionLBrace(tok, prm.identifiers, expectPeek(prm.p, LBRACE))

functionLParen(tok, lp) ==
  IF ~lp.ok THEN Ret(lp.p, Nil)
  ELSE functionParameters(tok, parseFunctionParameters(lp.p))

parseFunctionLiteral(p) ==
  functionLParen(p.curToken, expectPeek(p, LPAREN))

\* for p.peekTokenIs(token.COMMA) { ... } of parseExpressionList
RECURSIVE expressionListLoop(_, _)
expressionListNext(list, r) == expressionListLoop(r.p, Append(list, r.e))

expressionListLoop(p, list) ==
  IF peekTokenIs(p, COMMA)
  THEN expressionListNext(list,
                          parseExpression(nextToken(nextToken(p)), LOWEST))
  ELSE [p |-> p, list |-> list]

\* if !p.expectPeek(end) { return nil }; the nil slice is the empty one.
expressionListClose(loop, ep) ==
  [p |-> ep.p, list |-> IF ep.ok THEN loop.list ELSE <<>>]

expressionListEnd(loop, end) ==
  expressionListClose(loop, expectPeek(loop.p, end))

expressionListFirst(first, end) ==
  expressionListEnd(expressionListLoop(first.p, <<first.e>>), end)

\* [p, list]
parseExpressionList(p, end) ==
  IF peekTokenIs(p, end)
  THEN [p |-> nextToken(p), list |-> <<>>]
  ELSE expressionListFirst(parseExpression(nextToken(p), LOWEST), end)

callNode(tok, function, args) ==
  Ret(args.p, [node |-> "CallExpression", Token |-> tok,
               Function |-> function, Arguments |-> args.list])

parseCallExpression(p, function) ==
  callNode(p.curToken, function, parseExpressionList(p, RPAREN))

arrayNode(tok, elems) ==
  Ret(elems.p, [node |-> "ArrayLiteral", Token |-> tok,
                Elements |-> elems.list])

parseArrayLiteral(p) ==
  arrayNode(p.curToken, parseExpressionList(p, RBRACKET))

indexClose(tok, left, idx) ==
  OrNil(expectPeek(idx.p, RBRACKET),
        [node |-> "IndexExpression", Token |-> tok, Left |-> left,
         Index |-> idx.e])

parseIndexExpression(p, left) ==
  indexClose(p.curToken, left, parseExpression(nextToken(p), LOWEST))

(***************************************************************************)
(* hash.Pairs is a Go map keyed by ast.Expression: an interface holding a  *)
(* pointer, so two keys are the same map key iff they are the same node    *)
(* (or both nil).  A key node is identified by the lexer position at which *)
(* its parse began, nil by 0; the map is a function from these identities  *)
(* to [key, value].  It holds no order.                                    *)
(***************************************************************************)
KeyPtr(pos, key) == IF key = Nil THEN 0 ELSE pos

EmptyMap == <<>>

\* Keys compared by their text rather than by pointer.
MapPutByText(pairs, ptr, key, value) ==
  IF \E q \in DOMAIN pairs : pairs[q].key = key
  THEN [q \in DOMAIN pairs |->
          IF pairs[q].key = key THEN [key |-> key, value |-> value]
          ELSE pairs[q]]
  ELSE (ptr :> [key |-> key, value |-> value]) @@ pairs

\* hash.Pairs[key] = value
MapPut(pairs, ptr, key, value) ==
  (ptr :> [key |-> key, value |-> value]) @@ pairs

\* for !p.peekTokenIs(token.RBRACE) { ... } of parseHashLiteral:
\* [p, pairs, ok], ok false when the body returned nil.
RECURSIVE hashLoop(_, _)

\* The loop with every comma required to be followed by another pair.
hashCommaStrict(pairs, comma) ==
  IF ~comma.ok THEN [p |-> comma.p, pairs |-> pairs, ok |-> FALSE]
  ELSE IF peekTokenIs(comma.p, RBRACE)
       THEN [p |-> peekError(comma.p, IDENT), pairs |-> pairs, ok |-> FALSE]
  ELSE hashLoop(comma.p, pairs)

hashComma(pairs, comma) ==
  IF ~comma.ok THEN [p |-> comma.p, pairs |-> pairs, ok |-> FALSE]
  ELSE hashLoop(comma.p, pairs)

hashPut(value, pairs) ==
  IF peekTokenIs(value.p, RBRACE) THEN hashLoop(value.p, pairs)
  ELSE hashComma(pairs, expectPeek(value.p, COMMA))

hashValue(pairs, ptr, key, value) ==
  hashPut(value, MapPut(pairs, ptr, key, value.e))

hashColon(pairs, ptr, key, colon) ==
  IF ~colon.ok THEN [p |-> colon.p, pairs |-> pairs, ok |-> FALSE]
  ELSE hashValue(pairs, ptr, key,
                 parseExpression(nextToken(colon.p), LOWEST))

hashKey(pairs, pos, key) ==
  hashColon(pairs, KeyPtr(pos, key.e), key.e, expectPeek(key.p, COLON))

hashBody(q, pairs) == hashKey(pairs, q.pos, parseExpression(q, LOWEST))

hashLoop(p, pairs) ==
  IF peekTokenIs(p, RBRACE)
  THEN [p |-> p, pairs |-> pairs, ok |-> TRUE]
  ELSE hashBody(nextToken(p), pairs)

hashClose(tok, loop, rb) ==
  OrNil(rb, [node |-> "HashLiteral", Token |-> tok, Pairs |-> loop.pairs])

hashEnd(tok, loop) ==
  IF ~loop.ok THEN Ret(loop.p, Nil)
  ELSE hashClose(tok, loop, expectPeek(loop.p, RBRACE))

parseHashLiteral(p) == hashEnd(p.curToken, hashLoop(p, EmptyMap))

(***************************************************************************)
(* parseExpression: the prefix function of the current token, then the     *)
(* infix functions while the next operator binds tighter.                  *)
(***************************************************************************)
PrefixTypes ==
  { IDENT, INT, BANG, MINUS, T_TRUE, T_FALSE, LPAREN, T_IF, FUNCTION,
    T_STRING, LBRACKET, LBRACE }

InfixTypes ==
  { PLUS, MINUS, SLASH, ASTERISK, EQ, NOT_EQ, LT, GT, LPAREN, LBRACKET }

\* p.prefixParseFns[p.curToken.Type]()
prefixParseFns(p) ==
  CASE p.curToken.Type = IDENT -> parseIdentifier(p)
    [] p.curToken.Type = INT -> parseIntegerLiteral(p)
    [] p.curToken.Type \in {BANG, MINUS} -> parsePrefixExpression(p)
    [] p.curToken.Type \in {T_TRUE, T_FALSE} -> parseBoolean(p)
    [] p.curToken.Type = LPAREN -> parseGroupedExpression(p)
    [] p.curToken.Type = T_IF -> parseIfExpression(p)
    [] p.curToken.Type = FUNCTION -> parseFunctionLiteral(p)
    [] p.curToken.Type = T_STRING -> parseStringLiteral(p)
    [] p.curToken.Type = LBRACKET -> parseArrayLiteral(p)
    [] p.curToken.Type = LBRACE -> parseHashLiteral(p)

\* p.infixParseFns[p.curToken.Type](left)
infixParseFns(p, left) ==
  CASE p.curToken.Type = LPAREN -> parseCallExpression(p, left)
    [] p.curToken.Type = LBRACKET -> parseIndexExpression(p, left)
    [] OTHER -> parseInfixExpression(p, left)

\* for !p.peekTokenIs(token.SEMICOLON) && precedence < p.peekPrecedence()
RECURSIVE infixLoop(_, _, _)
infixNext(r, precedence) == infixLoop(r.p, r.e, precedence)

infixLoop(p, leftExp, precedence) ==
  IF ~peekTokenIs(p, SEMICOLON) /\ precedence < peekPrecedence(p)
  THEN IF p.peekToken.Type \notin InfixTypes THEN Ret(p, leftExp)
       ELSE infixNext(infixParseFns(nextToken(p), leftExp), precedence)
  ELSE Ret(p, leftExp)

prefixDone(left, precedence) == infixLoop(left.p, left.e, precedence)

parseExpression(p, precedence) ==
  IF p.curToken.Type \notin PrefixTypes
  THEN Ret(noPrefixParseFnError(p, p.curToken.Type), Nil)
  ELSE prefixDone(prefixParseFns(p), precedence)

(***************************************************************************)
(* Statements.                                                             *)
(***************************************************************************)
\* for !p.curTokenIs(token.SEMICOLON) { p.nextToken() }.  Once the current
\* and the next token are both end-of-file and the lexer is exhausted,
\* nextToken changes neither: the loop never ends (spin).
RECURSIVE skipToSemicolon(_)
skipToSemicolon(p) ==
  IF p.spin \/ curTokenIs(p, SEMICOLON) THEN p
  ELSE IF curTokenIs(p, EOF) /\ peekTokenIs(p, EOF) /\ p.pos > Len(p.toks)
       THEN [p EXCEPT !.spin = TRUE]
  ELSE skipToSemicolon(nextToken(p))

letValue(tok, name, val) ==
  Ret(skipToSemicolon(val.p),
      [node |-> "LetStatement", Token |-> tok, Name |-> name,
       Value |-> val.e])

letAssign(tok, name, asg) ==
  IF ~asg.ok THEN Ret(asg.p, Nil)
  ELSE letValue(tok, name, parseExpression(nextToken(asg.p), LOWEST))

letName(tok, id) ==
  IF ~id.ok THEN Ret(id.p, Nil)
  ELSE letAssign(tok, IdentifierNode(id.p.curToken),
                 expectPeek(id.p, ASSIGN))

parseLetStatement(p) == letName(p.curToken, expectPeek(p, IDENT))

returnValue(tok, val) ==
  Ret(skipToSemicolon(val.p),
      [node |-> "ReturnStatement", Token |-> tok, ReturnValue |-> val.e])

parseReturnStatement(p) ==
  returnValue(p.curToken, parseExpression(nextToken(p), LOWEST))

expressionStatementEnd(tok, exp) ==
  Ret(IF peekTokenIs(exp.p, SEMICOLON) THEN nextToken(exp.p) ELSE exp.p,
      [node |-> "ExpressionStatement", Token |-> tok,
       Expression |-> exp.e])

parseExpressionStatement(p) ==
  expressionStatementEnd(p.curToken, parseExpression(p, LOWEST))

parseStatement(p) ==
  CASE p.curToken.Type = T_LET -> parseLetStatement(p)
    [] p.curToken.Type = RETURN -> parseReturnStatement(p)
    [] OTHER -> parseExpressionStatement(p)

\* for !p.curTokenIs(token.RBRACE) && !p.curTokenIs(token.EOF) { ... }
RECURSIVE blockLoop(_, _)
blockNext(statements, stmt) ==
  blockLoop(nextToken(stmt.p), Append(statements, stmt.e))

blockLoop(p, statements) ==
  IF ~curTokenIs(p, RBRACE) /\ ~curTokenIs(p, EOF)
  THEN blockNext(statements, parseStatement(p))
  ELSE [p |-> p, statements |-> statements]

blockNode(tok, loop) ==
  Ret(loop.p, [node |-> "BlockStatement", Token |-> tok,
               Statements |-> loop.statements])

parseBlockStatement(p) == blockNode(p.curToken, blockLoop(nextToken(p), <<>>))

\* The loop's body with the test `if stmt != nil` around the append.
programNextFiltered(program, stmt) ==
  [p |-> nextToken(stmt.p),
   program |-> IF stmt.e # Nil THEN Append(program, stmt.e) ELSE program]

\* One iteration of ParseProgram's loop: [p, program].
programNext(program, stmt) ==
  [p |-> nextToken(stmt.p), program |-> Append(program, stmt.e)]

ParseProgramBody(p, program) == programNext(program, parseStatement(p))

\* for p.curToken.Type != token.EOF { ... }
RECURSIVE ParseProgramLoop(_, _)
programLoopNext(it) == ParseProgramLoop(it.p, it.program)

ParseProgramLoop(p, program) ==
  IF p.curToken.Type # EOF
  THEN programLoopNext(ParseProgramBody(p, program))
  ELSE [p |-> p, program |-> program]

\* [p, program]: the parser after the call (p.spin: the call never
\* returns) and the statements of the *ast.Program returned.
ParseProgram(p) == ParseProgramLoop(p, <<>>)

(***************************************************************************)
(* The AST printer (package ast): String() of the node types whose         *)
(* methods are at hand.  HasString(n) holds when n.String() is one of      *)
(* them and dereferences no nil node on the way.                           *)
(***************************************************************************)
RECURSIVE HasString(_)
HasString(n) ==
  CASE n.node \in {"Identifier", "IntegerLiteral", "Boolean"} -> TRUE
    [] n.node = "PrefixExpression" -> n.Right # Nil /\ HasString(n.Right)
    [] n.node = "InfixExpression" ->
         /\ n.Left # Nil /\ HasString(n.Left)
         /\ n.Right # Nil /\ HasString(n.Right)
    [] n.node = "LetStatement" -> n.Value = Nil \/ HasString(n.Value)
    [] n.node = "ReturnStatement" ->
         n.ReturnValue = Nil \/ HasString(n.ReturnValue)
    [] n.node = "ExpressionStatement" ->
         n.Expression = Nil \/ HasString(n.Expression)
    [] OTHER -> FALSE

TokenLiteral(n) == n.Token.Literal

RECURSIVE String(_)
InfixString(n) ==
  <<"(">> \o String(n.Left) \o <<" ">> \o n.Operator \o <<" ">>
          \o String(n.Right) \o <<")">>

PrefixString(n) == <<"(">> \o n.Operator \o String(n.Right) \o <<")">>

LetString(n) ==
  TokenLiteral(n) \o <<" ">> \o String(n.Name) \o <<" ", "=", " ">>
    \o (IF n.Value # Nil THEN String(n.Value) ELSE <<>>) \o <<";">>

\* ReturnStatement.String without the blank after the keyword.
ReturnStringNoSpace(n) ==
  TokenLiteral(n)
    \o (IF n.ReturnValue # Nil THEN String(n.ReturnValue) ELSE <<>>)
    \o <<";">>

ReturnString(n) ==
  TokenLiteral(n) \o <<" ">>
    \o (IF n.ReturnValue # Nil THEN String(n.ReturnValue) ELSE <<>>)
    \o <<";">>

ExpressionStatementString(n) ==
  IF n.Expression # Nil THEN String(n.Expression) ELSE <<>>

String(n) ==
  CASE n.node = "Identifier" -> n.Value
    [] n.node \in {"IntegerLiteral", "Boolean"} -> n.Token.Literal
    [] n.node = "PrefixExpression" -> PrefixString(n)
    [] n.node = "InfixExpression" -> InfixString(n)
    [] n.node = "LetStatement" -> LetString(n)
    [] n.node = "ReturnStatement" -> ReturnString(n)
    [] n.node = "ExpressionStatement" -> ExpressionStatementString(n)

\* Program.String: the statements' strings one after the other.
RECURSIVE ProgramString(_)
ProgramString(statements) ==
  IF statements = <<>> THEN <<>>
  ELSE String(Head(statements)) \o ProgramString(Tail(statements))

ProgramHasString(statements) ==
  \A i \in 1..Len(statements) : HasString(statements[i])

(***************************************************************************)
(* State.                                                                  *)
(*   toks     the tokens the lexer hands to the parser under test         *)
(*   p        the parser: lexer position, current and next token, errors  *)
(*   program  the statements ParseProgram has appended so far             *)
(*   pc       where the call of ParseProgram stands: "ParseProgram" (at   *)
(*            the head of its loop), "spin" (inside a statement's loop    *)
(*            that never ends) or "returned"                              *)
(*   order    the order in which a range over a hash literal's Pairs has  *)
(*            visited the map's keys                                      *)
(*   rt       the print-and-parse-again pipeline                          *)
(*   repl     the read-eval-print loop: Start or StartHandle              *)
(*   http     one POST /code request: handler, worker, channels, clock    *)
(***************************************************************************)
VARIABLES toks, p, program, pc, order, rt, repl, http

vars == <<toks, p, program, pc, order, rt, repl, http>>

\* Bounds of the model.
MaxLen  == 4
MaxSpin == 2

LetTok    == Tok(T_LET, <<"l", "e", "t">>)
ReturnTok == Tok(RETURN, <<"r", "e", "t", "u", "r", "n">>)
IdentTok(c) == Tok(IDENT, <<c>>)
IntTok(cs)  == Tok(INT, cs)
SymTok(t) ==
  Tok(t, CASE t = EQ -> <<"=", "=">>
           [] t = NOT_EQ -> <<"!", "=">>
           [] OTHER -> <<t>>)

\* All sequences over S of length at most n.
SeqsUpTo(S, n) == UNION {[1..k -> S] : k \in 0..n}

RangeOff == [done |-> FALSE, visited |-> <<>>]
RtOff    == [stage |-> "off"]
ReplOff  == [mode |-> "off"]
HttpOff  == [pc |-> "off"]

InitParser(inputs) ==
  /\ toks \in inputs
  /\ p = New(toks)
  /\ program = <<>>
  /\ pc = "ParseProgram"
  /\ order = RangeOff
  /\ rt = RtOff
  /\ repl = ReplOff
  /\ http = HttpOff

(***************************************************************************)
(* ParseProgram, one iteration of its loop per step.                       *)
(***************************************************************************)
\* The loop's body; a statement whose parse never returns leaves the
\* parser inside that statement.
ParseStatement ==
  /\ pc = "ParseProgram"
  /\ p.curToken.Type # EOF
  /\ LET it == ParseProgramBody(p, program)
     IN  IF it.p.spin
         THEN /\ p' = it.p
              /\ pc' = "spin"
              /\ UNCHANGED program
         ELSE /\ p' = it.p
              /\ program' = it.program
              /\ UNCHANGED pc
  /\ UNCHANGED <<toks, order, rt, repl, http>>

\* One more turn of a let or return statement's loop at end-of-file:
\* p.nextToken() reads the lexer again and the current token stays EOF.
SkipSpin ==
  /\ pc = "spin"
  /\ p.pos <= Len(toks) + 2 + MaxSpin
  /\ ~curTokenIs(p, SEMICOLON)
  /\ p' = [p EXCEPT !.curToken = p.peekToken,
                    !.peekToken = NextToken(p.toks, p.pos),
                    !.pos = p.pos + 1]
  /\ UNCHANGED <<toks, program, pc, order, rt, repl, http>>

\* The loop's exit: return program.
ParseProgramReturn ==
  /\ pc = "ParseProgram"
  /\ p.curToken.Type = EOF
  /\ pc' = "returned"
  /\ UNCHANGED <<toks, p, program, order, rt, repl, http>>

(***************************************************************************)
(* Spec: ParseProgram on every short token sequence over a small alphabet  *)
(* of statement tokens.                                                    *)
(***************************************************************************)
StatementTokens ==
  { LetTok, ReturnTok, IdentTok("a"), SymTok(ASSIGN), IntTok(<<"1">>),
    IntTok(<<"0", "8">>), SymTok(SEMICOLON), SymTok(PLUS), SymTok(LPAREN) }

Init == InitParser(SeqsUpTo(StatementTokens, MaxLen))

Next == ParseStatement \/ SkipSpin \/ ParseProgramReturn

Spec == Init /\ [][Next]_vars

(***************************************************************************)
(* Properties of ParseProgram under Spec.                                  *)
(***************************************************************************)
IsPrefix(s, t) == Len(s) <= Len(t) /\ SubSeq(t, 1, Len(s)) = s

\* The messages of the two forms, over every kind of token.
ExpectedMsgs == { ExpectedMsg(t, got) : t \in TokenTypes, got \in TokenTypes }

NoPrefixMsgs == { NoPrefixMsg(t) : t \in TokenTypes }

IsExpectedMsg(msg) == msg \in ExpectedMsgs

IsNoPrefixMsg(msg) == msg \in NoPrefixMsgs

IsCouldNotParseMsg(msg) ==
  \E i \in 1..Len(toks) : msg = CouldNotParseMsg(toks[i].Literal)

\* C1: ParseProgram returns on every finite token sequence: the loop that
\* ends a let or return statement stops advancing once the current token
\* is a semicolon or end-of-file, so the parser is never caught inside a
\* statement with the input exhausted.
C1_StatementLoopStopsAtEOF == pc # "spin"

\* C4 as stated: every message of the error list has one of the two forms
\* "expected next token to be K, got K instead" and "no prefix parse
\* function for K found".
C4_TwoForms ==
  \A i \in 1..Len(p.errors) :
    IsExpectedMsg(p.errors[i]) \/ IsNoPrefixMsg(p.errors[i])

\* C4 amended: every message has one of three forms, the two above and
\* "could not parse "L" as integer" for the literal L of an INT token; a
\* step only appends to the list, and a step that appends leaves
\* ParseProgram running.
C4_ThreeFormsAppendOnly ==
  [][ /\ \A i \in 1..Len(p'.errors) :
           \/ IsExpectedMsg(p'.errors[i])
           \/ IsNoPrefixMsg(p'.errors[i])
           \/ IsCouldNotParseMsg(p'.errors[i])
      /\ IsPrefix(p.errors, p'.errors)
      /\ (p'.errors # p.errors => pc' # "returned") ]_vars

\* ParseProgram has returned with all three kinds of message in the list,
\* the integer one first.
C4_Witness ==
  /\ pc = "returned"
  /\ Len(p.errors) >= 3
  /\ IsCouldNotParseMsg(p.errors[1])
  /\ \E i \in 1..Len(p.errors) : IsExpectedMsg(p.errors[i])
  /\ \E i \in 1..Len(p.errors) : IsNoPrefixMsg(p.errors[i])

(***************************************************************************)
(* SpecInfix: ParseProgram on every `x o1 y o2 z`, the operands            *)
(* identifiers or literals and the operators binary.                       *)
(***************************************************************************)
TrueTok == Tok(T_TRUE, <<"t", "r", "u", "e">>)

Operands == { IdentTok("a"), IdentTok("b"), IntTok(<<"5">>), TrueTok }

BinaryOps == { EQ, NOT_EQ, LT, GT, PLUS, MINUS, ASTERISK, SLASH }

InfixInputs ==
  { <<x, SymTok(o1), y, SymTok(o2), z>> \o tail :
      x \in Operands, y \in Operands, z \in Operands,
      o1 \in BinaryOps, o2 \in BinaryOps,
      tail \in {<<>>, <<SymTok(SEMICOLON)>>} }

InitInfix == InitParser(InfixInputs)

NextInfix == ParseStatement \/ ParseProgramReturn

SpecInfix == InitInfix /\ [][NextInfix]_vars

\* The levels of the binary operators as the precedence table of the
\* language gives them, lowest first.
Level(op) ==
  CASE op \in {EQ, NOT_EQ} -> 1
    [] op \in {LT, GT} -> 2
    [] op \in {PLUS, MINUS} -> 3
    [] op \in {ASTERISK, SLASH} -> 4

\* (l o r) as the canonical string writes it.
Paren(l, o, r) == <<"(">> \o l \o <<" ">> \o o \o <<" ">> \o r \o <<")">>

LeftGrouped ==
  Paren(Paren(toks[1].Literal, toks[2].Literal, toks[3].Literal),
        toks[4].Literal, toks[5].Literal)

RightGrouped ==
  Paren(toks[1].Literal, toks[2].Literal,
        Paren(toks[3].Literal, toks[4].Literal, toks[5].Literal))

ParsedClean ==
  pc = "returned" /\ p.errors = <<>> /\ ProgramHasString(program)

\* C2: with o1 on a lower level than o2, `x o1 y o2 z` parses to
\* (x o1 (y o2 z)); with o1 on a higher level than o2, to ((x o1 y) o2 z).
C2_Precedence ==
  pc = "returned" =>
    /\ Level(toks[2].Type) < Level(toks[4].Type) =>
         ParsedClean /\ ProgramString(program) = RightGrouped
    /\ Level(toks[2].Type) > Level(toks[4].Type) =>
         ParsedClean /\ ProgramString(program) = LeftGrouped

\* `x + y * z` and `x * y == z` have been parsed.
C2_Witness ==
  /\ pc = "returned"
  /\ \/ /\ toks[2].Type = PLUS /\ toks[4].Type = ASTERISK
        /\ ProgramString(program) = RightGrouped
     \/ /\ toks[2].Type = ASTERISK /\ toks[4].Type = EQ
        /\ ProgramString(program) = LeftGrouped

\* C3: with o1 and o2 on the same level (the same operator or not),
\* `x o1 y o2 z` parses to ((x o1 y) o2 z).
C3_LeftAssociative ==
  pc = "returned" /\ Level(toks[2].Type) = Level(toks[4].Type) =>
    ParsedClean /\ ProgramString(program) = LeftGrouped

\* `x - y - z` and `x - y + z` have been parsed.
C3_Witness ==
  /\ pc = "returned"
  /\ toks[2].Type = MINUS
  /\ toks[4].Type \in {MINUS, PLUS}
  /\ ProgramString(program) = LeftGrouped

(***************************************************************************)
(* SpecHash: ParseProgram on hash literals of up to MaxPairs pairs, well   *)
(* formed, with a trailing comma, and malformed in five ways; then one     *)
(* pass over the pairs of the node, as `for k, v := range hash.Pairs`      *)
(* makes it.                                                               *)
(***************************************************************************)
MaxPairs == 3

StringTok(cs) == Tok(T_STRING, cs)

HashKeys == { IdentTok("a"), IntTok(<<"1">>), StringTok(<<"k">>) }

HashValues == { IdentTok("a"), IntTok(<<"2">>) }

\* K1 : V1 , K2 : V2 , ... , Kn : Vn
PairTokens(kvs) ==
  [i \in 1..(IF kvs = <<>> THEN 0 ELSE 4 * Len(kvs) - 1) |->
     CASE i % 4 = 1 -> kvs[(i + 3) \div 4][1]
       [] i % 4 = 2 -> SymTok(COLON)
       [] i % 4 = 3 -> kvs[(i + 1) \div 4][2]
       [] OTHER -> SymTok(COMMA)]

Without(s, t) == SelectSeq(s, LAMBDA x : x.Type # t)

HashShapes(kvs) ==
  { <<SymTok(LBRACE)>> \o PairTokens(kvs) \o <<SymTok(RBRACE)>>,
    <<SymTok(LBRACE)>> \o PairTokens(kvs)
       \o <<SymTok(COMMA), SymTok(RBRACE)>>,
    <<SymTok(LBRACE)>> \o PairTokens(kvs)
       \o <<SymTok(COMMA), SymTok(COMMA), SymTok(RBRACE)>>,
    <<SymTok(LBRACE), SymTok(COMMA)>> \o PairTokens(kvs)
       \o <<SymTok(RBRACE)>>,
    <<SymTok(LBRACE)>> \o PairTokens(kvs),
    <<SymTok(LBRACE)>> \o Without(PairTokens(kvs), COLON)
       \o <<SymTok(COLON), SymTok(RBRACE)>>,
    <<SymTok(LBRACE)>> \o Without(PairTokens(kvs), COMMA)
       \o <<IdentTok("a"), SymTok(RBRACE)>> }

HashInputs ==
  UNION { HashShapes(kvs) : kvs \in SeqsUpTo(HashKeys \X HashValues, MaxPairs) }

InitHash == InitParser(HashInputs)

\* The node of the one statement of the program, when it is a hash literal.
IsHashProgram ==
  /\ Len(program) = 1
  /\ program[1].node = "ExpressionStatement"
  /\ program[1].Expression.node = "HashLiteral"

\* for key, value := range hash.Pairs: every entry once, in an order the
\* language leaves unspecified.
RangePairs ==
  /\ pc = "returned"
  /\ IsHashProgram
  /\ ~order.done
  /\ \E visit \in [1..Cardinality(DOMAIN program[1].Expression.Pairs) ->
                     DOMAIN program[1].Expression.Pairs] :
       /\ \A i, j \in DOMAIN visit : visit[i] = visit[j] => i = j
       /\ order' = [done |-> TRUE, visited |-> visit]
  /\ UNCHANGED <<toks, p, program, pc, rt, repl, http>>

NextHash == ParseStatement \/ ParseProgramReturn \/ RangePairs

SpecHash == InitHash /\ [][NextHash]_vars

(***************************************************************************)
(* Properties of parseHashLiteral under SpecHash.                          *)
(***************************************************************************)
IsAtom(t) == t.Type \in {IDENT, INT, T_STRING}

\* toks[2..] begins with K1 : V1 , ... , Kn : Vn.
IsPairsAt(n) ==
  /\ Len(toks) >= 4 * n
  /\ \A i \in 1..n :
       /\ IsAtom(toks[4 * i - 2])
       /\ toks[4 * i - 1].Type = COLON
       /\ IsAtom(toks[4 * i])
       /\ i < n => toks[4 * i + 1].Type = COMMA

\* toks is { K1 : V1 , ... , Kn : Vn }, n >= 0.
IsPlainHash(n) ==
  /\ Len(toks) = (IF n = 0 THEN 2 ELSE 4 * n + 1)
  /\ toks[1].Type = LBRACE
  /\ IsPairsAt(n)
  /\ toks[Len(toks)].Type = RBRACE

\* toks is { K1 : V1 , ... , Kn : Vn , }, n >= 1.
IsTrailingCommaHash(n) ==
  /\ n >= 1
  /\ Len(toks) = 4 * n + 2
  /\ toks[1].Type = LBRACE
  /\ IsPairsAt(n)
  /\ toks[4 * n + 1].Type = COMMA
  /\ toks[4 * n + 2].Type = RBRACE

PairCount == (Len(toks) - 1) \div 4

\* The identity of the key node whose parse began with toks[k] the current
\* token: the lexer has by then been read k + 1 times.
KeyPtrAt(k) == k + 2

\* The node holds exactly n pairs, the i-th key and value of the source
\* among them.
HoldsSourcePairs(n) ==
  /\ IsHashProgram
  /\ DOMAIN program[1].Expression.Pairs = { KeyPtrAt(4 * i - 2) : i \in 1..n }
  /\ Cardinality(DOMAIN program[1].Expression.Pairs) = n
  /\ \A i \in 1..n :
       /\ program[1].Expression.Pairs[KeyPtrAt(4 * i - 2)].key.Token
            = toks[4 * i - 2]
       /\ program[1].Expression.Pairs[KeyPtrAt(4 * i - 2)].value.Token
            = toks[4 * i]

\* C5 as stated: `{K1:V1,...,Kn:Vn,}` is a parser error and yields no
\* HashLiteral node; only the forms without a trailing comma parse cleanly.
C5_TrailingCommaRejected ==
  pc = "returned" =>
    /\ IsTrailingCommaHash(PairCount) => p.errors # <<>> /\ ~IsHashProgram
    /\ p.errors = <<>> => IsPlainHash(PairCount)

\* C5 amended: `{K1:V1,...,Kn:Vn,}` (n >= 1) parses without error to the
\* HashLiteral of `{K1:V1,...,Kn:Vn}`; the forms that parse without error
\* are `{}`, `{K:V(,K:V)*}` and `{K:V(,K:V)*,}`.
C5_TrailingCommaAccepted ==
  pc = "returned" =>
    /\ IsTrailingCommaHash(PairCount) \/ IsPlainHash(PairCount) =>
         p.errors = <<>> /\ HoldsSourcePairs(PairCount)
    /\ p.errors = <<>> =>
         IsTrailingCommaHash(PairCount) \/ IsPlainHash(PairCount)

\* `{K1:V1,K2:V2,}` has been parsed to a two-pair HashLiteral, no error.
C5_Witness ==
  /\ pc = "returned"
  /\ IsTrailingCommaHash(2)
  /\ p.errors = <<>>
  /\ HoldsSourcePairs(2)

MaxParamLen == 4

FnTok == Tok(FUNCTION, <<"f", "n">>)

ParamTokens ==
  { IdentTok("a"), IdentTok("b"), IntTok(<<"1">>), LetTok, SymTok(COMMA) }

FnInputs ==
  { <<FnTok, SymTok(LPAREN)>> \o between
      \o <<SymTok(RPAREN), SymTok(LBRACE), SymTok(RBRACE)>> :
      between \in SeqsUpTo(ParamTokens, MaxParamLen) }

InitFn == InitParser(FnInputs)

NextFn == ParseStatement \/ ParseProgramReturn

SpecFn == InitFn /\ [][NextFn]_vars

\* The tokens between `(` and `)`.
Between == SubSeq(toks, 3, Len(toks) - 3)

IsFunctionProgram ==
  /\ Len(program) = 1
  /\ program[1].node = "ExpressionStatement"
  /\ program[1].Expression.node = "FunctionLiteral"

\* C6: every parameter of a FunctionLiteral parsed without error is an
\* IDENT token, and a parameter list holding a token other than an
\* identifier, or ending in a comma, is a parser error.
C6_ParametersAreIdentifiers ==
  pc = "returned" =>
    /\ p.errors = <<>> /\ IsFunctionProgram =>
         \A i \in DOMAIN program[1].Expression.Parameters :
           program[1].Expression.Parameters[i].Token.Type = IDENT
    /\ \/ \E i \in DOMAIN Between : Between[i].Type \notin {IDENT, COMMA}
       \/ Between # <<>> /\ Between[Len(Between)].Type = COMMA
       => p.errors # <<>>

(***************************************************************************)
(* The lexer, after its contract: blanks skipped; identifiers and keywords *)
(* runs of letters and `_`; integers runs of digits; strings between       *)
(* double quotes; `==` and `!=` by one character of lookahead; any other   *)
(* known character a token of its own; an unknown one ILLEGAL.  Lex gives  *)
(* the tokens before end-of-file.                                          *)
(***************************************************************************)
Whitespace == { " ", "\t", "\r", "\n" }

Letters ==
  { "a", "b", "c", "d", "e", "f", "g", "h", "i", "j", "k", "l", "m", "n",
    "o", "p", "q", "r", "s", "t", "u", "v", "w", "x", "y", "z", "_",
    "A", "B", "C", "D", "E", "F", "G", "H", "I", "J", "K", "L", "M", "N",
    "O", "P", "Q", "R", "S", "T", "U", "V", "W", "X", "Y", "Z" }

DigitChars == { Digits[i] : i \in 1..Len(Digits) }

SingleCharTokens ==
  { ASSIGN, PLUS, MINUS, BANG, ASTERISK, SLASH, LT, GT, COMMA, SEMICOLON,
    COLON, LPAREN, RPAREN, LBRACE, RBRACE, LBRACKET, RBRACKET }

LookupIdent(word) ==
  CASE word = <<"f", "n">> -> FUNCTION
    [] word = <<"l", "e", "t">> -> T_LET
    [] word = <<"t", "r", "u", "e">> -> T_TRUE
    [] word = <<"f", "a", "l", "s", "e">> -> T_FALSE
    [] word = <<"i", "f">> -> T_IF
    [] word = <<"e", "l", "s", "e">> -> T_ELSE
    [] word = <<"r", "e", "t", "u", "r", "n">> -> RETURN
    [] OTHER -> IDENT

WordTok(word) == Tok(LookupIdent(word), word)

\* The first index from i on at which cs leaves the set S (Len(cs) + 1
\* when it does not).
RECURSIVE RunEnd(_, _, _)
RunEnd(cs, i, S) ==
  IF i > Len(cs) \/ cs[i] \notin S THEN i ELSE RunEnd(cs, i + 1, S)

\* The index of the closing quote of the string opened at i - 1.
RECURSIVE QuoteEnd(_, _)
QuoteEnd(cs, i) ==
  IF i > Len(cs) \/ cs[i] = "\"" THEN i ELSE QuoteEnd(cs, i + 1)

RECURSIVE LexFrom(_, _)
LexWord(cs, i, j) == <<WordTok(SubSeq(cs, i, j - 1))>> \o LexFrom(cs, j)

LexNumber(cs, i, j) == <<Tok(INT, SubSeq(cs, i, j - 1))>> \o LexFrom(cs, j)

LexString(cs, i, j) ==
  <<Tok(T_STRING, SubSeq(cs, i + 1, j - 1))>> \o LexFrom(cs, j + 1)

LexFrom(cs, i) ==
  CASE i > Len(cs) -> <<>>
    [] i <= Len(cs) /\ cs[i] \in Whitespace -> LexFrom(cs, i + 1)
    [] i <= Len(cs) /\ cs[i] \in Letters ->
         LexWord(cs, i, RunEnd(cs, i, Letters))
    [] i <= Len(cs) /\ cs[i] \in DigitChars ->
         LexNumber(cs, i, RunEnd(cs, i, DigitChars))
    [] i <= Len(cs) /\ cs[i] = "\"" -> LexString(cs, i, QuoteEnd(cs, i + 1))
    [] i < Len(cs) /\ cs[i] = "=" /\ cs[i + 1] = "=" ->
         <<SymTok(EQ)>> \o LexFrom(cs, i + 2)
    [] i < Len(cs) /\ cs[i] = "!" /\ cs[i + 1] = "=" ->
         <<SymTok(NOT_EQ)>> \o LexFrom(cs, i + 2)
    [] OTHER ->
         <<Tok(IF cs[i] \in SingleCharTokens THEN cs[i] ELSE ILLEGAL,
               <<cs[i]>>)>> \o LexFrom(cs, i + 1)

Lex(cs) == LexFrom(cs, 1)

(***************************************************************************)
(* SpecRT: ParseProgram on up to MaxStatements statements; when it returns a program     *)
(* without errors, Program.String of it, the lexer on that string, and     *)
(* ParseProgram on the tokens of the string.                               *)
(***************************************************************************)
MaxStatements == 2

RtExpressions ==
  { <<IdentTok("a")>>,
    <<IntTok(<<"1">>)>>,
    <<SymTok(MINUS), IdentTok("a")>>,
    <<SymTok(BANG), TrueTok>>,
    <<IdentTok("a"), SymTok(PLUS), IntTok(<<"1">>)>>,
    <<IntTok(<<"1">>), SymTok(ASTERISK), SymTok(MINUS), IdentTok("b")>> }

\* let and return statements, expression statements with and without
\* their semicolon, and a let statement never closed.
RtStatements ==
  { <<LetTok, IdentTok("a"), SymTok(ASSIGN)>> \o e \o <<SymTok(SEMICOLON)>> :
      e \in RtExpressions }
  \cup { <<ReturnTok>> \o e \o <<SymTok(SEMICOLON)>> : e \in RtExpressions }
  \cup { e \o <<SymTok(SEMICOLON)>> : e \in RtExpressions }
  \cup RtExpressions
  \cup { <<LetTok, IdentTok("b"), SymTok(ASSIGN), IntTok(<<"1">>)>>,
         <<ReturnTok, SymTok(SEMICOLON)>> }

RECURSIVE Flatten(_)
Flatten(ss) == IF ss = <<>> THEN <<>> ELSE Head(ss) \o Flatten(Tail(ss))

InitRT ==
  InitParser({ Flatten(ss) : ss \in SeqsUpTo(RtStatements, MaxStatements) })

\* program.String()
PrintProgram ==
  /\ pc = "returned"
  /\ rt.stage = "off"
  /\ p.errors = <<>>
  /\ ProgramHasString(program)
  /\ rt' = [stage |-> "printed", str |-> ProgramString(program)]
  /\ UNCHANGED <<toks, p, program, pc, order, repl, http>>

\* parser.New(lexer.New(str))
LexAgain ==
  /\ rt.stage = "printed"
  /\ rt' = [stage |-> "lexed", str |-> rt.str, q |-> New(Lex(rt.str))]
  /\ UNCHANGED <<toks, p, program, pc, order, repl, http>>

ParsedAgain(str, res) ==
  [stage |-> IF res.p.spin THEN "hung" ELSE "parsed", str |-> str,
   q |-> res.p, program |-> res.program]

\* ParseProgram() of the second parser, to its return or to the loop it
\* never leaves.
ParseAgain ==
  /\ rt.stage = "lexed"
  /\ rt' = ParsedAgain(rt.str, ParseProgram(rt.q))
  /\ UNCHANGED <<toks, p, program, pc, order, repl, http>>

NextRT ==
  \/ ParseStatement
  \/ SkipSpin
  \/ ParseProgramReturn
  \/ PrintProgram
  \/ LexAgain
  \/ ParseAgain

SpecRT == InitRT /\ [][NextRT]_vars

\* No expression statement of the first program is followed by another
\* statement.
OnlyLastIsExpressionStatement ==
  \A i \in 1..(Len(program) - 1) : program[i].node # "ExpressionStatement"

SecondParseDone == rt.stage \in {"parsed", "hung"}

\* C8 as stated: the string of an error-free program parses again without
\* errors to a program of the same string (compared where the second
\* program's nodes have a String method at hand).
C8_RoundTrip ==
  SecondParseDone =>
    /\ rt.stage = "parsed"
    /\ rt.q.errors = <<>>
    /\ ProgramHasString(rt.program) => ProgramString(rt.program) = rt.str

\* C8 amended: when no expression statement of P is followed by another
\* statement, the string of P parses again without errors to a program of
\* the same string.
C8_RoundTripLastExpression ==
  SecondParseDone /\ OnlyLastIsExpressionStatement =>
    /\ rt.stage = "parsed"
    /\ rt.q.errors = <<>>
    /\ ProgramHasString(rt.program)
    /\ ProgramString(rt.program) = rt.str

\* A let statement followed by an infix expression statement has made the
\* round trip.
C8_Witness ==
  /\ rt.stage = "parsed"
  /\ Len(program) = 2
  /\ program[1].node = "LetStatement"
  /\ program[2].node = "ExpressionStatement"
  /\ program[2].Expression.node \in {"InfixExpression", "PrefixExpression"}
  /\ rt.q.errors = <<>>
  /\ ProgramString(rt.program) = rt.str

(***************************************************************************)
(* The evaluator, after its contract, for the nodes the read-eval-print    *)
(* loop is given here: let, return and expression statements over          *)
(* identifiers, integer and boolean literals, prefix and infix             *)
(* expressions.  An environment is a function from names to objects; the   *)
(* result of a program is the value of its last statement, a let           *)
(* statement having none (GoNil).                                          *)
(***************************************************************************)
GoNil == [type |-> "nil"]

IntegerObj(v) == [type |-> "INTEGER", value |-> v]

BooleanObj(b) == [type |-> "BOOLEAN", value |-> b]

ErrorObj(msg) == [type |-> "ERROR", message |-> msg]

FunctionObj == [type |-> "FUNCTION"]

BuiltinObj(name) == [type |-> "BUILTIN", name |-> name]

BuiltinNames == { "len", "first", "last", "rest", "push", "puts" }

isError(obj) == obj.type = "ERROR"

\* Division as the host makes it: truncated towards zero.
Quotient(a, b) ==
  IF (a >= 0) = (b > 0)
  THEN (IF a >= 0 THEN a ELSE -a) \div (IF b > 0 THEN b ELSE -b)
  ELSE -((IF a >= 0 THEN a ELSE -a) \div (IF b > 0 THEN b ELSE -b))

evalIntegerInfixExpression(op, a, b) ==
  CASE op = "+" -> IntegerObj(a + b)
    [] op = "-" -> IntegerObj(a - b)
    [] op = "*" -> IntegerObj(a * b)
    [] op = "/" /\ b # 0 -> IntegerObj(Quotient(a, b))
    [] op = "/" /\ b = 0 -> [type |-> "panic"]
    [] op = "<" -> BooleanObj(a < b)
    [] op = ">" -> BooleanObj(a > b)
    [] op = "==" -> BooleanObj(a = b)
    [] op = "!=" -> BooleanObj(a # b)
    [] OTHER -> ErrorObj("unknown operator: INTEGER " \o op \o " INTEGER")

evalInfixExpression(op, left, right) ==
  CASE left.type = "INTEGER" /\ right.type = "INTEGER" ->
         evalIntegerInfixExpression(op, left.value, right.value)
    [] left.type = "BOOLEAN" /\ right.type = "BOOLEAN" /\ op = "==" ->
         BooleanObj(left.value = right.value)
    [] left.type = "BOOLEAN" /\ right.type = "BOOLEAN" /\ op = "!=" ->
         BooleanObj(left.value # right.value)
    [] left.type # right.type ->
         ErrorObj("type mismatch: " \o left.type \o " " \o op \o " "
                    \o right.type)
    [] OTHER ->
         ErrorObj("unknown operator: " \o left.type \o " " \o op \o " "
                    \o right.type)

evalPrefixExpression(op, right) ==
  CASE op = "!" -> BooleanObj(right = BooleanObj(FALSE))
    [] op = "-" /\ right.type = "INTEGER" -> IntegerObj(-right.value)
    [] OTHER -> ErrorObj("unknown operator: " \o op \o right.type)

evalIdentifier(name, env) ==
  IF name \in DOMAIN env THEN env[name]
  ELSE IF name \in BuiltinNames THEN BuiltinObj(name)
  ELSE ErrorObj("identifier not found: " \o name)

RECURSIVE EvalExpression(_, _)
evalInfixRight(op, left, right) ==
  IF isError(right) THEN right ELSE evalInfixExpression(op, left, right)

evalInfixLeft(n, env, left) ==
  IF isError(left) THEN left
  ELSE evalInfixRight(Str(n.Operator), left, EvalExpression(n.Right, env))

evalPrefixRight(op, right) ==
  IF isError(right) THEN right ELSE evalPrefixExpression(op, right)

EvalExpression(n, env) ==
  CASE n.node = "IntegerLiteral" -> IntegerObj(n.Value)
    [] n.node = "Boolean" -> BooleanObj(n.Value)
    [] n.node = "Identifier" -> evalIdentifier(Str(n.Value), env)
    [] n.node = "PrefixExpression" ->
         evalPrefixRight(Str(n.Operator), EvalExpression(n.Right, env))
    [] n.node = "InfixExpression" ->
         evalInfixLeft(n, env, EvalExpression(n.Left, env))

\* [result, env]
RECURSIVE evalProgram(_, _, _)
evalLet(rest, env, name, val) ==
  IF isError(val) THEN [result |-> val, env |-> env]
  ELSE evalProgram(rest, (name :> val) @@ env, GoNil)

evalExpressionStatement(rest, env, val) ==
  IF isError(val) THEN [result |-> val, env |-> env]
  ELSE evalProgram(rest, env, val)

evalStatement(stmt, rest, env) ==
  CASE stmt.node = "LetStatement" ->
         evalLet(rest, env, Str(stmt.Name.Value),
                 EvalExpression(stmt.Value, env))
    [] stmt.node = "ReturnStatement" ->
         [result |-> EvalExpression(stmt.ReturnValue, env), env |-> env]
    [] stmt.node = "ExpressionStatement" ->
         evalExpressionStatement(rest, env,
                                 EvalExpression(stmt.Expression, env))

evalProgram(statements, env, result) ==
  IF statements = <<>> THEN [result |-> result, env |-> env]
  ELSE evalStatement(Head(statements), Tail(statements), env)

Eval(statements, env) == evalProgram(statements, env, GoNil)

Inspect(obj) ==
  CASE obj.type = "INTEGER" -> ToString(obj.value)
    [] obj.type = "BOOLEAN" -> (IF obj.value THEN "true" ELSE "false")
    [] obj.type = "ERROR" -> "ERROR: " \o obj.message
    [] obj.type = "BUILTIN" -> "builtin function"

(***************************************************************************)
(* The read-eval-print loop (package repl).  repl is                       *)
(*   mode   "Start" or "StartHandle"                                       *)
(*   pc     "loop" (at the head of the for loop), "hung" (inside a         *)
(*          ParseProgram that never returns) or "returned"                 *)
(*   raw    the input                                                      *)
(*   lines  the lines the scanner has yet to hand out                      *)
(*   env    the session environment                                        *)
(*   out    what has been written to the sink                              *)
(*   check  StartHandle's flag                                             *)
(*   evals  the number of calls of evaluator.Eval on input lines           *)
(***************************************************************************)
PROMPT == ">> "

\* The environment after evaluating builtinFns: map, reduce and sum bound
\* to functions.
BuiltinEnv ==
  [name \in {"map", "reduce", "sum"} |-> FunctionObj]

\* strings.ReplaceAll(raw, "\n", "")
StripNewlines(cs) == SelectSeq(cs, LAMBDA c : c # "\n")

RECURSIVE LineEnd(_, _)
LineEnd(cs, i) ==
  IF i > Len(cs) \/ cs[i] = "\n" THEN i ELSE LineEnd(cs, i + 1)

dropCR(cs) ==
  IF cs # <<>> /\ cs[Len(cs)] = "\r" THEN SubSeq(cs, 1, Len(cs) - 1) ELSE cs

\* The tokens of bufio.ScanLines over the whole input, one per Scan.
RECURSIVE ScanLines(_)
scanLine(cs, j) ==
  <<dropCR(SubSeq(cs, 1, j - 1))>> \o ScanLines(SubSeq(cs, j + 1, Len(cs)))

ScanLines(cs) == IF cs = <<>> THEN <<>> ELSE scanLine(cs, LineEnd(cs, 1))

RECURSIVE printParserErrors(_, _)
printParserErrors(out, errors) ==
  IF errors = <<>> THEN out
  ELSE printParserErrors(out \o "\t" \o Head(errors) \o "\n", Tail(errors))

\* evaluator := evaluator.Eval(program, env); if evaluator != nil { ... }
replEvaluated(r, ev) ==
  [r EXCEPT !.env = ev.env,
            !.evals = r.evals + 1,
            !.out = IF ev.result # GoNil
                    THEN r.out \o Inspect(ev.result) \o "\n"
                    ELSE r.out]

\* The flag left as it is on a line with parser errors.
startHandleErrorsKeepCheck(r, errors) ==
  [r EXCEPT !.out = printParserErrors(r.out, errors)]

startHandleErrors(r, errors) ==
  [r EXCEPT !.out = printParserErrors(r.out, errors), !.check = FALSE]

\* The body of StartHandle's loop after p.ParseProgram(), res its outcome.
startHandleParsed(r, res) ==
  IF res.p.spin THEN [r EXCEPT !.pc = "hung"]
  ELSE IF Len(Errors(res.p)) # 0 THEN startHandleErrors(r, Errors(res.p))
  ELSE replEvaluated(r, Eval(res.program, r.env))

\* The body of Start's loop after p.ParseProgram(), res its outcome.
startParsed(r, res) ==
  IF res.p.spin THEN [r EXCEPT !.pc = "hung"]
  ELSE IF Len(Errors(res.p)) # 0
       THEN [r EXCEPT !.out = printParserErrors(r.out, Errors(res.p))]
  ELSE replEvaluated(r, Eval(res.program, r.env))

\* Start(in, out) on the input cs, up to its loop.
StartCalled(cs) ==
  [mode |-> "Start", pc |-> "loop", raw |-> cs, lines |-> ScanLines(cs),
   env |-> BuiltinEnv, out |-> "", check |-> TRUE, evals |-> 0]

\* StartHandle(raw), up to its loop.
StartHandleCalled(cs) ==
  [mode |-> "StartHandle", pc |-> "loop", raw |-> cs,
   lines |-> ScanLines(StripNewlines(cs)),
   env |-> BuiltinEnv, out |-> "", check |-> TRUE, evals |-> 0]

\* One turn of Start's loop with a line scanned.
StartLine ==
  /\ repl.mode = "Start"
  /\ repl.pc = "loop"
  /\ repl.lines # <<>>
  /\ repl' = startParsed([repl EXCEPT !.out = repl.out \o PROMPT,
                                      !.lines = Tail(repl.lines)],
                         ParseProgram(New(Lex(Head(repl.lines)))))
  /\ UNCHANGED <<toks, p, program, pc, order, rt, http>>

\* if !scanned { return }
StartReturn ==
  /\ repl.mode = "Start"
  /\ repl.pc = "loop"
  /\ repl.lines = <<>>
  /\ repl' = [repl EXCEPT !.out = repl.out \o PROMPT, !.pc = "returned"]
  /\ UNCHANGED <<toks, p, program, pc, order, rt, http>>

\* One turn of StartHandle's loop with a line scanned.
StartHandleLine ==
  /\ repl.mode = "StartHandle"
  /\ repl.pc = "loop"
  /\ repl.lines # <<>>
  /\ repl' = startHandleParsed([repl EXCEPT !.lines = Tail(repl.lines)],
                               ParseProgram(New(Lex(Head(repl.lines)))))
  /\ UNCHANGED <<toks, p, program, pc, order, rt, http>>

\* if !scanned { return buf.String(), check }
StartHandleReturn ==
  /\ repl.mode = "StartHandle"
  /\ repl.pc = "loop"
  /\ repl.lines = <<>>
  /\ repl' = [repl EXCEPT !.pc = "returned"]
  /\ UNCHANGED <<toks, p, program, pc, order, rt, http>>

(***************************************************************************)
(* SpecRepl: Start and StartHandle on every input put together from up to  *)
(* MaxPieces pieces of source text.                                        *)
(***************************************************************************)
MaxPieces == 3

ReplPieces ==
  { <<"a">>,
    <<"1">>,
    <<"+">>,
    <<"-", "t", "r", "u", "e">>,
    <<"0", "8">>,
    <<"l", "e", "t", " ", "a", " ", "=", " ", "2", ";">>,
    <<"l", "e", "t", " ", "b", " ", "=", " ", "1">>,
    <<"\n">> }

ReplInputs == { Flatten(ss) : ss \in SeqsUpTo(ReplPieces, MaxPieces) }

InitRepl ==
  /\ toks = <<>>
  /\ p = New(toks)
  /\ program = <<>>
  /\ pc = "off"
  /\ order = RangeOff
  /\ rt = RtOff
  /\ http = HttpOff
  /\ \E cs \in ReplInputs : repl \in {StartCalled(cs), StartHandleCalled(cs)}

NextRepl == StartLine \/ StartReturn \/ StartHandleLine \/ StartHandleReturn

SpecRepl == InitRepl /\ [][NextRepl]_vars

(***************************************************************************)
(* Properties of the read-eval-print loop under SpecRepl.                  *)
(***************************************************************************)
\* The parser after ParseProgram on a line.
ParsedLine(line) == ParseProgram(New(Lex(line)))

\* The lines the scanner has handed out so far.
ScannedLines ==
  SubSeq(ScanLines(StripNewlines(repl.raw)), 1,
         Len(ScanLines(StripNewlines(repl.raw))) - Len(repl.lines))

\* C9: while StartHandle runs and when it has returned, its flag is false
\* if and only if a line scanned so far had parser errors: true at first,
\* never back to true, and untouched by a runtime Error of the evaluation.
C9_OkIffNoParserErrors ==
  repl.mode = "StartHandle" /\ repl.pc # "hung" =>
    (repl.check = FALSE <=>
       \E i \in DOMAIN ScannedLines :
         ParsedLine(ScannedLines[i]).p.errors # <<>>)

\* StartHandle("08\n-true") has scanned the one line `08-true`, found a
\* parser error in it, evaluated nothing and returned false.
C9_Witness ==
  /\ repl.mode = "StartHandle"
  /\ repl.pc = "returned"
  /\ repl.raw = <<"0", "8", "\n", "-", "t", "r", "u", "e">>
  /\ repl.check = FALSE
  /\ repl.evals = 0
  /\ repl.out = "\tcould not parse \"08\" as integer\n"

\* The errors as the sink is to show them.
RECURSIVE TabbedLines(_)
TabbedLines(errors) ==
  IF errors = <<>> THEN ""
  ELSE "\t" \o Head(errors) \o "\n" \o TabbedLines(Tail(errors))

Prompt(mode) == IF mode = "Start" THEN ">> " ELSE ""

\* C10: every line scanned is handled and the loop goes on: a line with
\* parser errors is not evaluated, its errors are written tab-prefixed
\* and newline-terminated in list order and the environment is unchanged;
\* a line without is evaluated once in the session environment and a
\* non-nil result written as its inspect string and a newline.
C10_LineHandling ==
  [][repl.pc = "loop" /\ repl.lines # <<>> /\ repl' # repl =>
       /\ repl'.pc = "loop"
       /\ repl'.lines = Tail(repl.lines)
       /\ ParsedLine(Head(repl.lines)).p.errors # <<>> =>
            /\ repl'.evals = repl.evals
            /\ repl'.env = repl.env
            /\ repl'.out = repl.out \o Prompt(repl.mode)
                 \o TabbedLines(ParsedLine(Head(repl.lines)).p.errors)
       /\ ParsedLine(Head(repl.lines)).p.errors = <<>> =>
            /\ repl'.evals = repl.evals + 1
            /\ repl'.env
                 = Eval(ParsedLine(Head(repl.lines)).program, repl.env).env
            /\ repl'.out = repl.out \o Prompt(repl.mode)
                 \o (IF Eval(ParsedLine(Head(repl.lines)).program,
                             repl.env).result = GoNil
                     THEN ""
                     ELSE Inspect(Eval(ParsedLine(Head(repl.lines)).program,
                                       repl.env).result) \o "\n")
  ]_vars

\* The same with the lines left aside whose ParseProgram never returns.
LineHandlingWhenParsed ==
  [][repl.pc = "loop" /\ repl.lines # <<>> /\ repl' # repl
       /\ ~ParsedLine(Head(repl.lines)).p.spin =>
       /\ repl'.pc = "loop"
       /\ repl'.lines = Tail(repl.lines)
       /\ ParsedLine(Head(repl.lines)).p.errors # <<>> =>
            /\ repl'.evals = repl.evals
            /\ repl'.env = repl.env
            /\ repl'.out = repl.out \o Prompt(repl.mode)
                 \o TabbedLines(ParsedLine(Head(repl.lines)).p.errors)
       /\ ParsedLine(Head(repl.lines)).p.errors = <<>> =>
            /\ repl'.evals = repl.evals + 1
            /\ repl'.env
                 = Eval(ParsedLine(Head(repl.lines)).program, repl.env).env
            /\ repl'.out = repl.out \o Prompt(repl.mode)
                 \o (IF Eval(ParsedLine(Head(repl.lines)).program,
                             repl.env).result = GoNil
                     THEN ""
                     ELSE Inspect(Eval(ParsedLine(Head(repl.lines)).program,
                                       repl.env).result) \o "\n")
  ]_vars

(***************************************************************************)
(* Properties of ParseProgram's statement list under Spec.                 *)
(***************************************************************************)
\* parseLetStatement is about to return nil: the current token is `let`
\* and the next is no identifier, or the one after it is no `=`.
LetFails ==
  /\ p.curToken.Type = T_LET
  /\ \/ p.peekToken.Type # IDENT
     \/ NextToken(toks, p.pos).Type # ASSIGN

HasNilSlot(statements) == \E i \in DOMAIN statements : statements[i] = Nil

\* C11: every turn of ParseProgram's loop that comes back appends exactly
\* one statement slot, a nil one exactly when parseLetStatement failed on
\* its identifier or its `=`; a program with a nil slot has a non-empty
\* error list.
C11_OneSlotPerAttempt ==
  [][pc = "ParseProgram" /\ pc' # "spin" /\ p' # p =>
       /\ Len(program') = Len(program) + 1
       /\ SubSeq(program', 1, Len(program)) = program
       /\ program'[Len(program')] = Nil <=> LetFails
       /\ HasNilSlot(program') => p'.errors # <<>>
  ]_vars

\* ParseProgram has returned a program of three slots, the first nil and
\* the last not, with errors recorded.
C11_Witness ==
  /\ pc = "returned"
  /\ Len(program) = 3
  /\ program[1] = Nil
  /\ program[3] # Nil
  /\ p.errors # <<>>

(***************************************************************************)
(* The POST /code handler (package main).  http is                         *)
(*   pc         where the handler stands: "go" (about to start the worker  *)
(*              goroutine), "select", "recvChannel" (ret := <-channel),    *)
(*              "recvCheck" (check_ok := <-check) or "returned"            *)
(*   worker     where the worker goroutine stands: "idle" (not started),   *)
(*              "StartHandle" (in the call, or back from it and about to   *)
(*              send on channel), "sendCheck" or "done"                    *)
(*   now        microseconds since the context and the timer were made,    *)
(*              as far as the two deadlines tell them apart                *)
(*   channel, check   the contents of the two buffered channels            *)
(*   ret        the string received from channel                           *)
(*   responses  the responses written with c.JSON                          *)
(* The worker's call of StartHandle is the read-eval-print loop's repl.    *)
(***************************************************************************)
CtxTimeoutMicros == 900

TimerMicros == 2000

\* The channels made without a buffer, make(chan string): the buffer of
\* such a channel is the empty one.
Unbuffered == Len(<<>>)

\* make(chan string, 1), make(chan bool, 1)
ChannelCap == 1

StatusOK == 200

StatusNotAcceptable == 406

\* The handler up to the go statement.
HandlerCalled(cs) ==
  [pc |-> "go", worker |-> "idle", raw |-> cs, now |-> 0,
   channel |-> <<>>, check |-> <<>>, ret |-> "", responses |-> <<>>]

\* c.JSON(status, body); return
respond(h, status, body) ==
  [h EXCEPT !.responses = Append(h.responses,
                                 [status |-> status, body |-> body]),
            !.pc = "returned"]

\* check_ok := <-check; if check_ok { 200 } else { 406 }
recvCheck(h, ok) ==
  respond([h EXCEPT !.check = Tail(h.check)],
          IF ok THEN StatusOK ELSE StatusNotAcceptable, h.ret)

\* Time passes: to the context's deadline, then to the timer's.
Tick ==
  /\ http.pc # "off"
  /\ http.now < TimerMicros
  /\ http' = [http EXCEPT !.now = IF http.now < CtxTimeoutMicros
                                  THEN CtxTimeoutMicros ELSE TimerMicros]
  /\ UNCHANGED <<toks, p, program, pc, order, rt, repl>>

\* go func(ctx) { res, ok := repl.StartHandle(raw_code) ...
GoWorker ==
  /\ http.pc = "go"
  /\ http' = [http EXCEPT !.pc = "select", !.worker = "StartHandle"]
  /\ repl' = StartHandleCalled(http.raw)
  /\ UNCHANGED <<toks, p, program, pc, order, rt>>

\* channel <- res
WorkerSendChannel ==
  /\ http.worker = "StartHandle"
  /\ repl.pc = "returned"
  /\ Len(http.channel) < ChannelCap
  /\ http' = [http EXCEPT !.channel = Append(http.channel, repl.out),
                          !.worker = "sendCheck"]
  /\ UNCHANGED <<toks, p, program, pc, order, rt, repl>>

\* check <- ok, and the goroutine ends
WorkerSendCheck ==
  /\ http.worker = "sendCheck"
  /\ Len(http.check) < ChannelCap
  /\ http' = [http EXCEPT !.check = Append(http.check, repl.check),
                          !.worker = "done"]
  /\ UNCHANGED <<toks, p, program, pc, order, rt, repl>>

\* select: case <-ctx.Done()
SelectCtxDone ==
  /\ http.pc = "select"
  /\ http.now >= CtxTimeoutMicros
  /\ http' = [http EXCEPT !.pc = "recvChannel"]
  /\ UNCHANGED <<toks, p, program, pc, order, rt, repl>>

\* select: case <-timer.C
SelectTimer ==
  /\ http.pc = "select"
  /\ http.now >= TimerMicros
  /\ http' = respond(http, StatusNotAcceptable, "Program RunTimeout")
  /\ UNCHANGED <<toks, p, program, pc, order, rt, repl>>

\* ret := <-channel
RecvChannel ==
  /\ http.pc = "recvChannel"
  /\ http.channel # <<>>
  /\ http' = [http EXCEPT !.ret = Head(http.channel),
                          !.channel = Tail(http.channel),
                          !.pc = "recvCheck"]
  /\ UNCHANGED <<toks, p, program, pc, order, rt, repl>>

\* check_ok := <-check and the response
RecvCheck ==
  /\ http.pc = "recvCheck"
  /\ http.check # <<>>
  /\ http' = recvCheck(http, Head(http.check))
  /\ UNCHANGED <<toks, p, program, pc, order, rt, repl>>

(***************************************************************************)
(* SpecHttp: one request for every input of SpecRepl, under every          *)
(* interleaving of the clock, the worker and the handler.                  *)
(***************************************************************************)
InitHttp ==
  /\ toks = <<>>
  /\ p = New(toks)
  /\ program = <<>>
  /\ pc = "off"
  /\ order = RangeOff
  /\ rt = RtOff
  /\ repl = ReplOff
  /\ \E cs \in ReplInputs : http = HandlerCalled(cs)

NextHttp ==
  \/ Tick
  \/ GoWorker
  \/ StartHandleLine
  \/ StartHandleReturn
  \/ WorkerSendChannel
  \/ WorkerSendCheck
  \/ SelectCtxDone
  \/ SelectTimer
  \/ RecvChannel
  \/ RecvCheck

SpecHttp == InitHttp /\ [][NextHttp]_vars

(***************************************************************************)
(* Properties of the POST /code handler under SpecHttp.                    *)
(***************************************************************************)
\* The worker is inside a call of StartHandle that never returns.
WorkerNeverFinishes == http.worker = "StartHandle" /\ repl.pc = "hung"

\* C12: the handler does not block forever: it is never left, the timer
\* fired and nothing answered, waiting to receive from a worker that never
\* finishes.
C12_HandlerNeverStuck ==
  ~ /\ http.now >= TimerMicros
    /\ WorkerNeverFinishes
    /\ http.pc = "recvChannel"
    /\ http.channel = <<>>
    /\ http.responses = <<>>

\* C13: the worker is never blocked at a send: when StartHandle has
\* returned and the worker is to send on channel, and when it is to send
\* on check, the channel has room, whatever the handler has done; neither
\* channel ever holds more than the one value sent on it.
C13_WorkerSendsNeverBlock ==
  /\ http.worker = "StartHandle" /\ repl.pc = "returned" =>
       Len(http.channel) < ChannelCap
  /\ http.worker = "sendCheck" => Len(http.check) < ChannelCap
  /\ http.pc # "off" => Len(http.channel) <= 1 /\ Len(http.check) <= 1

\* The handler has answered from the timer branch and the worker has
\* ended all the same, its two values left in the channels.
C13_Witness ==
  /\ http.pc = "returned"
  /\ http.responses = <<[status |-> StatusNotAcceptable,
                         body |-> "Program RunTimeout"]>>
  /\ http.worker = "done"
  /\ Len(http.channel) = 1
  /\ Len(http.check) = 1

\* The handler received the worker's result before it answered.
ResultReceived ==
  /\ http.worker = "done"
  /\ http.channel = <<>>
  /\ http.check = <<>>
  /\ http.ret = repl.out

\* What holds of the responses in every state: never more than one, and
\* exactly one once the handler has returned; 200 only with the worker's
\* result received and the flag of StartHandle true, the body then the
\* rendered result; a result with the flag false and the timer branch
\* both answer 406; the result is received from channel before the flag
\* from check, as the worker sends them.
ResponseWhenReturned ==
  /\ http.pc # "off" => Len(http.responses) <= 1
  /\ http.pc = "returned" <=> Len(http.responses) = 1
  /\ http.pc = "returned" =>
       \/ /\ http.responses[1] = [status |-> StatusOK, body |-> repl.out]
          /\ ResultReceived
          /\ repl.check = TRUE
       \/ /\ http.responses[1]
               = [status |-> StatusNotAcceptable, body |-> repl.out]
          /\ ResultReceived
          /\ repl.check = FALSE
       \/ /\ http.responses[1] = [status |-> StatusNotAcceptable,
                                  body |-> "Program RunTimeout"]
          /\ http.now >= TimerMicros
          /\ http.ret = ""
  /\ http.pc = "recvCheck" =>
       http.channel = <<>> /\ http.ret = repl.out /\ repl.pc = "returned"
  /\ http.pc = "recvChannel" => http.ret = "" /\ Len(http.check) <= 1

\* The handler takes no further step: it has returned, or it waits in
\* `ret := <-channel` for a worker that never sends.
HandlerAtEnd ==
  \/ http.pc = "returned"
  \/ http.pc = "recvChannel" /\ WorkerNeverFinishes

\* C14: on every path of the handler exactly one response is written for
\* the request: a handler that takes no further step has written one,
\* and never more than one is written; 200 is answered only with the
\* worker's result received and ok true, 406 for a result with ok false
\* and for the timeout, and the result is received from channel before
\* the flag from check.
C14_ExactlyOneResponse ==
  /\ ResponseWhenReturned
  /\ HandlerAtEnd => Len(http.responses) = 1

====
